---- MODULE Spec2Model ----
(***************************************************************************)
(* A model of internal/hclsort/hcl_processor.go of tfsort: the sorters     *)
(* that rebuild the bodies of terraform, locals and resource blocks and    *)
(* the pass that reorders the top-level blocks of a file.                  *)
(*                                                                         *)
(* A body is a sequence of nodes, as hclwrite keeps it:                    *)
(*   [node |-> "Attribute", name, tokens]    an attribute and its tokens   *)
(*   [node |-> "Block", type, labels, body]  a nested block                *)
(*   [node |-> "Tokens", tokens]             unstructured tokens           *)
(* A file is the body of its top level.                                    *)
(***************************************************************************)
EXTENDS Naturals, Sequences, FiniteSets

VARIABLES file, allowedBlocks, input, prevOut, pc, runs

vars == <<file, allowedBlocks, input, prevOut, pc, runs>>

\* ------------------------------------------------------------------ bounds

\* The longest top-level block sequence of a catalogue document.
MaxBlocks == 3

\* The longest body of a generated single-block document.
MaxItems == 4

\* How many times the reorder pass is applied to one document.
MaxRuns == 2

\* ------------------------------------------------------------------ tokens

Tok(type, bytes) == [Type |-> type, Bytes |-> bytes]

TokenNewline == Tok("TokenNewline", "\n")

Ident(name) == Tok("TokenIdent", name)

Equal == Tok("TokenEqual", "=")

Number == Tok("TokenNumberLit", "1")

OBrack == Tok("TokenOBrack", "[")

CBrack == Tok("TokenCBrack", "]")

\* A comment token runs to the end of its line: its bytes hold the newline.
Comment == Tok("TokenComment", "# note\n")

\* ------------------------------------------------------------------ nodes

AttributeNode(name, tokens) == [node |-> "Attribute", name |-> name, tokens |-> tokens]

BlockNode(type, labels, body) ==
    [node |-> "Block", type |-> type, labels |-> labels, body |-> body]

TokensNode(tokens) == [node |-> "Tokens", tokens |-> tokens]

IsAttribute(n) == n.node = "Attribute"

IsBlock(n) == n.node = "Block"

IsTokens(n) == n.node = "Tokens"

\* ------------------------------------------------------- hclwrite's Body

\* body.Blocks(): the body's blocks, in the order of the body.
Blocks(body) == SelectSeq(body, IsBlock)

\* The keys of body.Attributes(), a Go map from name to attribute.
AttributeNames(body) == {body[i].name : i \in {j \in DOMAIN body : IsAttribute(body[j])}}

\* attrs[name].BuildTokens(nil)
BuildTokens(body, name) ==
    body[CHOOSE i \in DOMAIN body : IsAttribute(body[i]) /\ body[i].name = name].tokens

RECURSIVE Orderings(_)
\* The sequences without repetition that enumerate the set S.
Orderings(S) ==
    IF S = {} THEN {<<>>}
    ELSE UNION {{<<x>> \o t : t \in Orderings(S \ {x})} : x \in S}

\* `for name := range attrs`: Go iterates a map in an unspecified order that
\* differs from run to run, so every order of the keys is possible.
MapRange(body) == Orderings(AttributeNames(body))

\* body.Clear()
Clear(body) == <<>>

\* body.AppendNewline()
AppendNewline(body) == Append(body, TokensNode(<<TokenNewline>>))

\* body.AppendUnstructuredTokens(tokens)
AppendUnstructuredTokens(body, tokens) == Append(body, TokensNode(tokens))

\* body.AppendBlock(block)
AppendBlock(body, block) == Append(body, block)

\* ------------------------------------------------------------ Go strings

\* The UTF-8 bytes of the strings the model compares.
StringBytes ==
    [count |-> <<99, 111, 117, 110, 116>>,
     for_each |-> <<102, 111, 114, 95, 101, 97, 99, 104>>,
     depends_on |-> <<100, 101, 112, 101, 110, 100, 115, 95, 111, 110>>,
     name |-> <<110, 97, 109, 101>>,
     Zone |-> <<90, 111, 110, 101>>,
     a |-> <<97>>,
     b |-> <<98>>,
     c |-> <<99>>,
     z |-> <<122>>,
     aws |-> <<97, 119, 115>>,
     google |-> <<103, 111, 111, 103, 108, 101>>,
     azurerm |-> <<97, 122, 117, 114, 101, 114, 109>>,
     aws_instance |-> <<97, 119, 115, 95, 105, 110, 115, 116, 97, 110, 99, 101>>,
     aws_ami |-> <<97, 119, 115, 95, 97, 109, 105>>,
     web |-> <<119, 101, 98>>]

RECURSIVE BytesLess(_, _)
\* Lexicographic order of two byte sequences; a proper prefix is smaller.
BytesLess(x, y) ==
    IF y = <<>> THEN FALSE
    ELSE IF x = <<>> THEN TRUE
    ELSE IF Head(x) # Head(y) THEN Head(x) < Head(y)
    ELSE BytesLess(Tail(x), Tail(y))

\* Go's < on strings: byte-wise lexicographic.
StrLess(s, t) == BytesLess(StringBytes[s], StringBytes[t])

Swap(data, i, j) == [data EXCEPT ![i] = data[j], ![j] = data[i]]

RECURSIVE InsertString(_, _)
\* The inner loop of Go's insertion sort: sink data[j] while it is less than
\* its left neighbour.
InsertString(data, j) ==
    IF j > 1 /\ StrLess(data[j], data[j - 1])
    THEN InsertString(Swap(data, j, j - 1), j - 1)
    ELSE data

RECURSIVE SortStringsFrom(_, _)
SortStringsFrom(data, i) ==
    IF i > Len(data) THEN data ELSE SortStringsFrom(InsertString(data, i), i + 1)

\* A mutant of SortStrings: the names are left in the order they came in.
SortStringsNoop(names) == names

\* sort.Strings(names): Go sorts a slice of at most 12 elements by insertion.
SortStrings(names) == SortStringsFrom(names, 2)

\* --------------------------------------------------- trimming an attribute

RECURSIVE TrimStart(_, _, _)
\* for start < end && tokens[start].Type == hclsyntax.TokenNewline { start++ }
TrimStart(tokens, start, end) ==
    IF start < end /\ tokens[start + 1].Type = "TokenNewline"
    THEN TrimStart(tokens, start + 1, end)
    ELSE start

RECURSIVE TrimEnd(_, _, _)
\* for end > start && tokens[end-1].Type == hclsyntax.TokenNewline { end-- }
TrimEnd(tokens, start, end) ==
    IF end > start /\ tokens[end].Type = "TokenNewline"
    THEN TrimEnd(tokens, start, end - 1)
    ELSE end

\* A mutant of TrimTokens: the trailing loop strips comment tokens as well.
RECURSIVE TrimEndComments(_, _, _)
TrimEndComments(tokens, start, end) ==
    IF end > start /\ tokens[end].Type \in {"TokenNewline", "TokenComment"}
    THEN TrimEndComments(tokens, start, end - 1)
    ELSE end

TrimTokensStrippingComments(tokens) ==
    LET start == TrimStart(tokens, 0, Len(tokens))
        end == TrimEndComments(tokens, start, Len(tokens))
    IN  SubSeq(tokens, start + 1, end)

\* tokens[start:end] after the two loops (Go slices count from 0).
TrimTokens(tokens) ==
    LET start == TrimStart(tokens, 0, Len(tokens))
        end == TrimEnd(tokens, start, Len(tokens))
    IN  SubSeq(tokens, start + 1, end)

RECURSIVE AppendSeparated(_, _, _, _)
\* The loop of a sorter over its sorted names, from index i: each attribute's
\* trimmed tokens, and a newline after each but the last.
AppendSeparated(body, attrs, names, i) ==
    IF i > Len(names) THEN body
    ELSE LET withAttr == AppendUnstructuredTokens(body, TrimTokens(BuildTokens(attrs, names[i])))
         IN  AppendSeparated(IF i < Len(names) THEN AppendNewline(withAttr) ELSE withAttr,
                             attrs, names, i + 1)

\* --------------------------------------------------------------- sorters

\* A mutant of ProvidersBody: the names are emitted in map order, not sorted.
ProvidersBodyUnsorted(body, iter) ==
    AppendNewline(AppendSeparated(AppendNewline(Clear(body)), body, iter, 1))

\* The body sortRequiredProvidersInBlock builds for one required_providers
\* block; iter is the order in which the range over the map yielded the names.
ProvidersBody(body, iter) ==
    LET providerNames == SortStrings(iter)
    IN  AppendNewline(AppendSeparated(AppendNewline(Clear(body)), body, providerNames, 1))

\* sortRequiredProvidersInBlock(block): every child block of type
\* required_providers has its body rebuilt in place; iters[i] is the map
\* iteration order met for the child at position i.
sortRequiredProvidersInBlock(block, iters) ==
    [block EXCEPT !.body =
        [i \in DOMAIN block.body |->
            LET b == block.body[i]
            IN  IF IsBlock(b) /\ b.type = "required_providers"
                THEN [b EXCEPT !.body = ProvidersBody(b.body, iters[i])]
                ELSE b]]

\* A mutant of LocalsBody: the names are emitted in map order, not sorted.
LocalsBodyUnsorted(body, iter) ==
    AppendNewline(AppendSeparated(AppendNewline(Clear(body)), body, iter, 1))

\* The body sortLocalsBlock builds.
LocalsBody(body, iter) ==
    LET names == SortStrings(iter)
    IN  AppendNewline(AppendSeparated(AppendNewline(Clear(body)), body, names, 1))

\* sortLocalsBlock(block)
sortLocalsBlock(block, iter) == [block EXCEPT !.body = LocalsBody(block.body, iter)]

metaArgCount == "count"

metaArgForEach == "for_each"

metaArgDependsOn == "depends_on"

IsFirstName(name) == name \in {metaArgCount, metaArgForEach}

IsPlainName(name) == name \notin {metaArgCount, metaArgForEach, metaArgDependsOn}

RECURSIVE AppendTerminated(_, _, _, _)
\* The loop over namesFirst, from index i: each attribute's trimmed tokens,
\* and a newline after every one of them.
AppendTerminated(body, attrs, names, i) ==
    IF i > Len(names) THEN body
    ELSE AppendTerminated(
             AppendNewline(
                 AppendUnstructuredTokens(body, TrimTokens(BuildTokens(attrs, names[i])))),
             attrs, names, i + 1)

RECURSIVE AppendBlocks(_, _, _)
\* The loop over the nested blocks, from index idx: each block, and a newline
\* after each but the last.
AppendBlocks(body, blocks, idx) ==
    IF idx > Len(blocks) THEN body
    ELSE LET withBlock == AppendBlock(body, blocks[idx])
         IN  AppendBlocks(IF idx < Len(blocks) THEN AppendNewline(withBlock) ELSE withBlock,
                          blocks, idx + 1)

\* The body sortResourceParams builds; iter is the order in which the range
\* over the attribute map yielded the names.
ResourceBody(body, iter) ==
    LET attrs == body
        blocks == Blocks(body)
        namesFirst == SelectSeq(iter, IsFirstName)
        hasDependsOn == \E i \in DOMAIN iter : iter[i] = metaArgDependsOn
        names == SortStrings(SelectSeq(iter, IsPlainName))
        start == AppendNewline(Clear(body))
        first == AppendTerminated(start, attrs, namesFirst, 1)
        firstGap == IF Len(namesFirst) > 0 THEN AppendNewline(first) ELSE first
        plain == AppendSeparated(firstGap, attrs, names, 1)
        plainGap == IF Len(blocks) > 0 /\ (Len(names) > 0 \/ Len(namesFirst) > 0)
                    THEN AppendNewline(AppendNewline(plain))
                    ELSE plain
        nested == AppendBlocks(plainGap, blocks, 1)
        dependsGap == IF Len(blocks) > 0 \/ Len(names) > 0 \/ Len(namesFirst) > 0
                      THEN AppendNewline(nested)
                      ELSE nested
        depends == IF hasDependsOn
                   THEN AppendUnstructuredTokens(
                            dependsGap, TrimTokens(BuildTokens(attrs, metaArgDependsOn)))
                   ELSE nested
    IN  AppendNewline(depends)

\* sortResourceParams(block)
sortResourceParams(block, iter) == [block EXCEPT !.body = ResourceBody(block.body, iter)]

\* ------------------------------------------------- ProcessAndSortBlocks

RECURSIVE SeqProduct(_)
\* The sequences that take their i-th element from the i-th set of sets.
SeqProduct(sets) ==
    IF sets = <<>> THEN {<<>>}
    ELSE {<<h>> \o t : h \in Head(sets), t \in SeqProduct(Tail(sets))}

\* The map iteration orders one call of a sorter on block can meet.
IterChoices(block) ==
    CASE block.type = "terraform" ->
            SeqProduct([i \in DOMAIN block.body |->
                LET b == block.body[i]
                IN  IF IsBlock(b) /\ b.type = "required_providers"
                    THEN MapRange(b.body)
                    ELSE {<<>>}])
      [] block.type \in {"resource", "locals"} -> MapRange(block.body)
      [] OTHER -> {<<>>}

\* The switch of the first loop, for one block.
SortBlock(block, iter) ==
    CASE block.type = "terraform" -> sortRequiredProvidersInBlock(block, iter)
      [] block.type = "resource" -> sortResourceParams(block, iter)
      [] block.type = "locals" -> sortLocalsBlock(block, iter)
      [] OTHER -> block

\* What the first loop can leave of one block.
BlockOutcomes(block) == {SortBlock(block, iter) : iter \in IterChoices(block)}

\* What the first loop can leave of the file's blocks.
FirstLoopOutcomes(blocks) ==
    SeqProduct([i \in DOMAIN blocks |-> BlockOutcomes(blocks[i])])

\* allowedBlocks[blockType] && len(block.Labels()) > 0
IsSortable(block, allowed) == block.type \in allowed /\ Len(block.labels) > 0

SortableBlock(block) == [Name |-> block.labels[1], Block |-> block]

RECURSIVE Partition(_, _, _, _, _)
\* The loop over originalBlocks, from index i.
Partition(blocks, allowed, i, sortableItems, otherBlocks) ==
    IF i > Len(blocks) THEN [sortableItems |-> sortableItems, otherBlocks |-> otherBlocks]
    ELSE IF IsSortable(blocks[i], allowed)
         THEN Partition(blocks, allowed, i + 1,
                        Append(sortableItems, SortableBlock(blocks[i])), otherBlocks)
         ELSE Partition(blocks, allowed, i + 1, sortableItems, Append(otherBlocks, blocks[i]))

\* A mutant of ItemLess: the order is reversed.
ItemGreater(x, y) == StrLess(y.Name, x.Name)

\* The less function handed to sort.Slice: it compares the first labels only.
ItemLess(x, y) == StrLess(x.Name, y.Name)

\* sort.Slice(sortableItems, less): the slice comes back a permutation of
\* itself with no element less than one before it. The sort is not stable, as
\* its documentation says: elements that less does not tell apart come back in
\* an order the sort's internals decide, so every such order is a result.
SortSlice(data) ==
    {[i \in DOMAIN data |-> data[perm[i]]] : perm \in
        {p \in Orderings(DOMAIN data) :
            \A i, j \in DOMAIN data : i < j => ~ItemLess(data[p[j]], data[p[i]])}}

RECURSIVE AppendOthers(_, _, _, _)
\* The loop over otherBlocks, from index i (Go counts from 0).
AppendOthers(body, otherBlocks, nSortable, i) ==
    IF i > Len(otherBlocks) THEN body
    ELSE LET withBlock == AppendBlock(body, otherBlocks[i])
         IN  AppendOthers(IF i - 1 < Len(otherBlocks) - 1 \/ nSortable > 0
                          THEN AppendNewline(withBlock)
                          ELSE withBlock,
                          otherBlocks, nSortable, i + 1)

RECURSIVE AppendSorted(_, _, _)
\* The loop over sortableItems, from index i.
AppendSorted(body, sortableItems, i) ==
    IF i > Len(sortableItems) THEN body
    ELSE LET withBlock == AppendBlock(body, sortableItems[i].Block)
         IN  AppendSorted(IF i - 1 < Len(sortableItems) - 1
                          THEN AppendNewline(withBlock)
                          ELSE withBlock,
                          sortableItems, i + 1)

\* The second pass of ProcessAndSortBlocks, over the blocks the first loop
\* left: the files it can build, one for each result of sort.Slice.
ReorderTopLevel(originalBlocks, allowed) ==
    LET parts == Partition(originalBlocks, allowed, 1, <<>>, <<>>)
    IN  {AppendSorted(
             AppendOthers(Clear(originalBlocks), parts.otherBlocks, Len(sortableItems), 1),
             sortableItems, 1) :
         sortableItems \in SortSlice(parts.sortableItems)}

\* The files ProcessAndSortBlocks(f, allowed) can return.
ProcessOutcomes(f, allowed) ==
    UNION {ReorderTopLevel(sorted, allowed) : sorted \in FirstLoopOutcomes(Blocks(f))}

\* ------------------------------------------- serialising and parsing again

IsNewlineNode(n) == IsTokens(n) /\ n.tokens = <<TokenNewline>>

\* The name of the attribute a run of tokens spells: its first identifier.
AttributeName(tokens) ==
    tokens[CHOOSE i \in DOMAIN tokens :
               /\ tokens[i].Type = "TokenIdent"
               /\ \A j \in 1..(i - 1) : tokens[j].Type # "TokenIdent"].Bytes

\* Whether the line of these tokens is still open: a comment token ends its
\* line itself, any other last token leaves the line to a following newline.
LineOpen(tokens) == tokens[Len(tokens)].Type # "TokenComment"

RECURSIVE Reparse(_)
\* FormatHCLBytes and then ParseHCLContent on a body the sorters built: the
\* parser reads the tokens of an attribute as an attribute again, with the
\* newline that ends its line; blocks and blank lines stay what they are.
Reparse(body) ==
    IF body = <<>> THEN <<>>
    ELSE LET h == Head(body)
             t == Tail(body)
         IN  IF IsBlock(h) THEN <<[h EXCEPT !.body = Reparse(h.body)]>> \o Reparse(t)
             ELSE IF IsAttribute(h) \/ IsNewlineNode(h) THEN <<h>> \o Reparse(t)
             ELSE IF LineOpen(h.tokens) /\ t # <<>> /\ IsNewlineNode(Head(t))
                  THEN <<AttributeNode(AttributeName(h.tokens),
                                       Append(h.tokens, TokenNewline))>> \o Reparse(Tail(t))
                  ELSE <<AttributeNode(AttributeName(h.tokens), h.tokens)>> \o Reparse(t)

\* ------------------------------------------------------------ the inputs

PlainAttr(name) == AttributeNode(name, <<Ident(name), Equal, Number, TokenNewline>>)

\* An attribute under a comment line of its own.
CommentedAttr(name) ==
    AttributeNode(name, <<Comment, Ident(name), Equal, Number, TokenNewline>>)

\* An attribute whose value spans lines: newline tokens inside the brackets.
ListAttr(name) ==
    AttributeNode(name, <<Ident(name), Equal, OBrack, TokenNewline, Number, TokenNewline,
                          CBrack, TokenNewline>>)

\* An attribute with a comment at the end of its line, which holds the newline.
LineCommentAttr(name) == AttributeNode(name, <<Ident(name), Equal, Number, Comment>>)

\* The attribute of a single-line block: no newline ends it.
InlineAttr(name) == AttributeNode(name, <<Ident(name), Equal, Number>>)

BlankLine == TokensNode(<<TokenNewline>>)

LifecycleBlock == BlockNode("lifecycle", <<>>, <<PlainAttr("b"), PlainAttr("a")>>)

DynamicBlock == BlockNode("dynamic", <<"web">>, <<>>)

ResourcePool ==
    {PlainAttr("count"), LineCommentAttr("for_each"), ListAttr("depends_on"),
     CommentedAttr("name"), PlainAttr("Zone"), LifecycleBlock, DynamicBlock}

LocalsPool == {PlainAttr("a"), ListAttr("b"), CommentedAttr("c"), BlankLine}

ProvidersPool == {ListAttr("aws"), ListAttr("google"), ListAttr("azurerm")}

\* The bodies of at most MaxItems nodes of pool, no node twice.
BodiesOver(pool) ==
    {s \in UNION {[1..n -> pool] : n \in 0..MaxItems} :
        \A i, j \in DOMAIN s : i # j => s[i] # s[j]}

BackendBlock == BlockNode("backend", <<"web">>, <<PlainAttr("b"), PlainAttr("a")>>)

\* Documents of one block with a generated body.
SingleBlockDocs ==
    {<<BlockNode("resource", <<"aws_instance", "web">>, body)>> : body \in BodiesOver(ResourcePool)}
    \cup {<<BlockNode("locals", <<>>, body)>> : body \in BodiesOver(LocalsPool)}
    \cup {<<BlockNode("terraform", <<>>,
                      <<BackendBlock, BlockNode("required_providers", <<>>, body)>>)>> :
              body \in BodiesOver(ProvidersPool)}

ExampleResource ==
    BlockNode("resource", <<"aws_instance", "web">>,
              <<CommentedAttr("name"), LineCommentAttr("for_each"), ListAttr("depends_on"),
                PlainAttr("count")>>)

ExampleData ==
    BlockNode("data", <<"aws_ami", "web">>,
              <<ListAttr("depends_on"), CommentedAttr("name"), PlainAttr("Zone"),
                PlainAttr("count")>>)

ExampleLocals == BlockNode("locals", <<>>, <<ListAttr("b"), CommentedAttr("c"), PlainAttr("a")>>)

ExampleTerraform ==
    BlockNode("terraform", <<>>,
              <<PlainAttr("name"),
                BlockNode("required_providers", <<>>,
                          <<ListAttr("aws"), ListAttr("google"), ListAttr("azurerm")>>),
                BackendBlock,
                BlockNode("required_providers", <<>>, <<PlainAttr("b"), PlainAttr("a")>>)>>)

BlockCatalog ==
    {BlockNode("variable", <<"b">>, <<>>),
     BlockNode("variable", <<"a">>, <<>>),
     BlockNode("variable", <<"a">>, <<InlineAttr("name")>>),
     BlockNode("output", <<"a">>, <<>>),
     BlockNode("output", <<"z">>, <<>>),
     ExampleResource, ExampleData, ExampleLocals, ExampleTerraform}

\* Documents of at most MaxBlocks blocks of the catalogue, no block twice.
CatalogDocs ==
    {s \in UNION {[1..n -> BlockCatalog] : n \in 0..MaxBlocks} :
        \A i, j \in DOMAIN s : i # j => s[i] # s[j]}

\* The allow-sets a caller hands in: locals is allowed in the second and has no
\* label, data and terraform are allowed in neither.
AllowSets == {{"variable"}, {"variable", "output", "resource", "locals"}}

\* ------------------------------------------------------- the state machine

\* A parsed file and the caller's allow-set, before any pass.
Init ==
    /\ \/ file \in CatalogDocs /\ allowedBlocks \in AllowSets
       \/ file \in SingleBlockDocs /\ allowedBlocks = {"variable", "output"}
    /\ input = file
    /\ prevOut = <<>>
    /\ pc = "parsed"
    /\ runs = 0

\* ProcessAndSortBlocks(file, allowedBlocks) on a parsed file.
ProcessAndSortBlocks ==
    /\ pc = "parsed"
    /\ runs < MaxRuns
    /\ \E out \in ProcessOutcomes(file, allowedBlocks) : file' = out
    /\ input' = file
    /\ pc' = "sorted"
    /\ runs' = runs + 1
    /\ UNCHANGED <<allowedBlocks, prevOut>>

\* The output is formatted to bytes and parsed again, for another pass.
FormatAndParse ==
    /\ pc = "sorted"
    /\ runs < MaxRuns
    /\ file' = Reparse(file)
    /\ prevOut' = file
    /\ pc' = "parsed"
    /\ UNCHANGED <<allowedBlocks, input, runs>>

Next == ProcessAndSortBlocks \/ FormatAndParse

Spec == Init /\ [][Next]_vars

\* ------------------------------------------------- reading a document

Header(b) == <<b.type, b.labels>>

Headers(f) == [i \in DOMAIN Blocks(f) |-> Header(Blocks(f)[i])]

\* A node that carries an attribute: an attribute node of a parsed body, or
\* the unstructured tokens a sorter appended for one.
IsAttrLike(n) == IsAttribute(n) \/ (IsTokens(n) /\ ~IsNewlineNode(n))

NodeName(n) == IF IsAttribute(n) THEN n.name ELSE AttributeName(n.tokens)

\* The names of a body's attributes, in the order of the body.
NameOrder(body) ==
    LET sel == SelectSeq(body, IsAttrLike)
    IN  [i \in DOMAIN sel |-> NodeName(sel[i])]

RECURSIVE Structure(_)
\* The order of a body: its attributes by name and its blocks by type, labels
\* and order of their own, blank lines and token content left out.
Structure(body) ==
    IF body = <<>> THEN <<>>
    ELSE LET h == Head(body)
         IN  IF IsBlock(h) THEN <<<<h.type, h.labels, Structure(h.body)>>>> \o Structure(Tail(body))
             ELSE IF IsAttrLike(h) THEN <<NodeName(h)>> \o Structure(Tail(body))
             ELSE Structure(Tail(body))

IsNotNewline(n) == ~IsNewlineNode(n)

BlocksOfType(f, type) ==
    LET bs == Blocks(f)
    IN  {bs[i] : i \in {j \in DOMAIN bs : bs[j].type = type}}

StrictlyIncreasing(names) ==
    \A i, j \in DOMAIN names : i < j => StrLess(names[i], names[j])

\* 1: count and for_each, 2: the other attributes, 3: nested blocks, 4: depends_on.
Group(n) ==
    IF IsBlock(n) THEN 3
    ELSE IF NodeName(n) \in {"count", "for_each"} THEN 1
    ELSE IF NodeName(n) = "depends_on" THEN 4
    ELSE 2

\* outBody holds the attributes and blocks of inBody in the order of the
\* resource style: groups 1, 2, 3, 4, group 2 sorted, group 3 as in inBody.
CanonicalResourceBody(outBody, inBody) ==
    LET items == SelectSeq(outBody, IsNotNewline)
    IN  /\ \A i, j \in DOMAIN items : i < j => Group(items[i]) <= Group(items[j])
        /\ \A i, j \in DOMAIN items :
               (i < j /\ Group(items[i]) = 2 /\ Group(items[j]) = 2)
                   => StrLess(NodeName(items[i]), NodeName(items[j]))
        /\ Blocks(outBody) = Blocks(inBody)
        /\ Len(NameOrder(outBody)) = Cardinality(AttributeNames(inBody))
        /\ {NameOrder(outBody)[i] : i \in DOMAIN NameOrder(outBody)} = AttributeNames(inBody)

\* t is o without its leading and trailing runs of newline tokens.
Stripped(t, o) ==
    /\ t # <<>> => (t[1] # TokenNewline /\ t[Len(t)] # TokenNewline)
    /\ \E lead \in 0..Len(o) :
           /\ lead + Len(t) <= Len(o)
           /\ SubSeq(o, lead + 1, lead + Len(t)) = t
           /\ \A k \in DOMAIN o : (k <= lead \/ k > lead + Len(t)) => o[k] = TokenNewline

\* Every attribute of inBody is in outBody exactly once, with its tokens
\* stripped of the outer newlines and otherwise as they were; no other
\* attribute is in outBody.
Preserved(outBody, inBody) ==
    /\ \A name \in AttributeNames(inBody) :
           LET at == {i \in DOMAIN outBody :
                         IsAttrLike(outBody[i]) /\ NodeName(outBody[i]) = name}
           IN  /\ Cardinality(at) = 1
               /\ \A i \in at : Stripped(outBody[i].tokens, BuildTokens(inBody, name))
    /\ \A i \in DOMAIN outBody :
           IsAttrLike(outBody[i]) => NodeName(outBody[i]) \in AttributeNames(inBody)

IsTerraform(b) == b.type = "terraform"

IsRequiredProviders(n) == IsBlock(n) /\ n.type = "required_providers"

\* The terraform blocks of a file; they carry no label, so the pass keeps
\* their relative order and the k-th of the output is the k-th of the input.
Terraforms(f) == SelectSeq(Blocks(f), IsTerraform)

\* The number of blank lines between the nodes at p and q of body, all nodes
\* between them being newlines: the first newline after open tokens only ends
\* their line.
BlankLines(body, p, q) ==
    LET newlines == q - p - 1
    IN  IF IsTokens(body[p]) /\ LineOpen(body[p].tokens) /\ newlines > 0
        THEN newlines - 1
        ELSE newlines

\* ------------------------------------------------------------ the claims

\* C1: applying the pass to its own output gives a document of the same
\* structure: the same top-level sequence, and in every body the same
\* attributes and nested blocks in the same order.
C1_ReorderIdempotent ==
    (pc = "sorted" /\ runs >= 2) => Structure(file) = Structure(prevOut)

\* C2: the output is the blocks that are not sortable, in their original
\* order, followed by the sortable blocks in non-decreasing order of their
\* first label; every input block is there exactly once and nothing else is.
C2_TopLevelOrder ==
    pc = "sorted" =>
        LET inB == Blocks(input)
            outB == Blocks(file)
            NotSortable(b) == ~IsSortable(b, allowedBlocks)
            others == SelectSeq(inB, NotSortable)
            k == Len(others)
        IN  /\ Len(outB) = Len(inB)
            /\ \A i \in 1..k :
                   /\ Header(outB[i]) = Header(others[i])
                   /\ outB[i] \in BlockOutcomes(others[i])
            /\ \A i \in (k + 1)..Len(outB) : IsSortable(outB[i], allowedBlocks)
            /\ \A i, j \in (k + 1)..Len(outB) :
                   i < j => ~StrLess(outB[j].labels[1], outB[i].labels[1])
            /\ \A h \in {Header(inB[i]) : i \in DOMAIN inB} :
                   Cardinality({i \in DOMAIN inB : Header(inB[i]) = h})
                       = Cardinality({i \in DOMAIN outB : Header(outB[i]) = h})
            /\ \A i \in DOMAIN file : IsBlock(file[i]) \/ IsNewlineNode(file[i])

\* C2's case: variable "b", variable "a", output "z" with the allow-set
\* {variable} has come out as output "z", variable "a", variable "b".
C2_Witness ==
    /\ pc = "sorted"
    /\ allowedBlocks = {"variable"}
    /\ Headers(input) = <<<<"variable", <<"b">>>>, <<"variable", <<"a">>>>, <<"output", <<"z">>>>>>
    /\ Headers(file) = <<<<"output", <<"z">>>>, <<"variable", <<"a">>>>, <<"variable", <<"b">>>>>>

\* C3: a rebuilt resource body holds the leading meta-arguments that were
\* present, then the other attributes but depends_on in strictly increasing
\* order of name, then the nested blocks in their original order, then
\* depends_on if it was present.
C3_ResourceBodyOrder ==
    pc = "sorted" =>
        \A ob \in BlocksOfType(file, "resource") :
            \E ib \in BlocksOfType(input, "resource") :
                Header(ib) = Header(ob) /\ CanonicalResourceBody(ob.body, ib.body)

\* C3's case: a resource written depends_on, lifecycle, name, count has been
\* rebuilt as count, name, lifecycle, depends_on.
C3_Witness ==
    /\ pc = "sorted"
    /\ runs = 1
    /\ Len(input) = 1
    /\ input[1].type = "resource"
    /\ input[1].body = <<ListAttr("depends_on"), LifecycleBlock, CommentedAttr("name"),
                         PlainAttr("count")>>
    /\ Structure(file[1].body)
           = <<"count", "name", <<"lifecycle", <<>>, <<"b", "a">>>>, "depends_on">>

\* The leading meta-arguments of a body, in the order of the body.
MetaOrder(body) == SelectSeq(NameOrder(body), IsFirstName)

\* C4: count and for_each come out in the relative order they had in the
\* source body.
C4_MetaArgsKeepSourceOrder ==
    pc = "sorted" =>
        \A ob \in BlocksOfType(file, "resource") :
            \E ib \in BlocksOfType(input, "resource") :
                Header(ib) = Header(ob) /\ MetaOrder(ob.body) = MetaOrder(ib.body)

\* C5: the body of a data block is in the order of the resource style after
\* the pass, as that of a resource block is.
C5_DataBodySorted ==
    pc = "sorted" =>
        \A ob \in BlocksOfType(file, "data") :
            \E ib \in BlocksOfType(input, "data") :
                Header(ib) = Header(ob) /\ CanonicalResourceBody(ob.body, ib.body)

\* Whether the child at p of the k-th terraform block of the input is a
\* required_providers block written aws, google, azurerm.
ProvidersExampleAt(k, p) ==
    /\ k \in DOMAIN Terraforms(input)
    /\ p \in DOMAIN Terraforms(input)[k].body
    /\ IsRequiredProviders(Terraforms(input)[k].body[p])
    /\ NameOrder(Terraforms(input)[k].body[p].body) = <<"aws", "google", "azurerm">>

\* C6, as stated: required_providers written aws, google, azurerm comes out
\* as azurerm, aws, google.
C6_ProvidersExampleAsStated ==
    pc = "sorted" =>
        \A k \in DOMAIN Terraforms(input) : \A p \in DOMAIN Terraforms(input)[k].body :
            ProvidersExampleAt(k, p)
                => NameOrder(Terraforms(file)[k].body[p].body) = <<"azurerm", "aws", "google">>

\* C6, amended: required_providers written aws, google, azurerm comes out as
\* aws, azurerm, google, the byte-wise order of the names.
C6_ProvidersExample ==
    pc = "sorted" =>
        \A k \in DOMAIN Terraforms(input) : \A p \in DOMAIN Terraforms(input)[k].body :
            ProvidersExampleAt(k, p)
                => NameOrder(Terraforms(file)[k].body[p].body) = <<"aws", "azurerm", "google">>

\* C6's case: the pass has run on a terraform block whose required_providers
\* was written aws, google, azurerm.
C6_Witness ==
    /\ pc = "sorted"
    /\ runs = 1
    /\ \E k \in DOMAIN Terraforms(input) : \E p \in DOMAIN Terraforms(input)[k].body :
           /\ ProvidersExampleAt(k, p)
           /\ Len(NameOrder(Terraforms(file)[k].body[p].body)) = 3

\* C7: a rebuilt locals body, and the body of every required_providers child
\* of a terraform block, holds its attributes in strictly increasing order of
\* name; the other children of the terraform block, and the place of
\* required_providers among them, are as they were.
C7_AlphabeticalBodies ==
    pc = "sorted" =>
        /\ \A ob \in BlocksOfType(file, "locals") :
               /\ StrictlyIncreasing(NameOrder(ob.body))
               /\ \E ib \in BlocksOfType(input, "locals") :
                      /\ AttributeNames(ib.body)
                             = {NameOrder(ob.body)[i] : i \in DOMAIN NameOrder(ob.body)}
                      /\ Len(NameOrder(ob.body)) = Cardinality(AttributeNames(ib.body))
        /\ Len(Terraforms(file)) = Len(Terraforms(input))
        /\ \A k \in DOMAIN Terraforms(input) :
               LET ib == Terraforms(input)[k]
                   ob == Terraforms(file)[k]
               IN  /\ Len(ob.body) = Len(ib.body)
                   /\ \A p \in DOMAIN ib.body :
                          IF IsRequiredProviders(ib.body[p])
                          THEN /\ IsRequiredProviders(ob.body[p])
                               /\ ob.body[p].labels = ib.body[p].labels
                               /\ StrictlyIncreasing(NameOrder(ob.body[p].body))
                               /\ {NameOrder(ob.body[p].body)[i] :
                                       i \in DOMAIN NameOrder(ob.body[p].body)}
                                      = AttributeNames(ib.body[p].body)
                          ELSE ob.body[p] = ib.body[p]

\* C7's case: locals written b, c, a has come out a, b, c, next to a
\* terraform block with two required_providers children around a backend.
C7_Witness ==
    /\ pc = "sorted"
    /\ runs = 1
    /\ input = <<ExampleLocals, ExampleTerraform>>
    /\ NameOrder(file[1].body) = <<"a", "b", "c">>
    /\ NameOrder(file[3].body[4].body) = <<"a", "b">>
    /\ file[3].body[3] = BackendBlock

\* C8: every attribute of a body that a sorter rebuilt is in the rebuilt body
\* exactly once, its tokens the original ones without the leading and the
\* trailing newline tokens; no token inside is removed, added or moved.
C8_ContentPreserved ==
    pc = "sorted" =>
        /\ \A type \in {"locals", "resource"} :
               \A ob \in BlocksOfType(file, type) :
                   \E ib \in BlocksOfType(input, type) :
                       Header(ib) = Header(ob) /\ Preserved(ob.body, ib.body)
        /\ \A k \in DOMAIN Terraforms(input) :
               \A p \in DOMAIN Terraforms(input)[k].body :
                   IsRequiredProviders(Terraforms(input)[k].body[p])
                       => Preserved(Terraforms(file)[k].body[p].body,
                                    Terraforms(input)[k].body[p].body)

\* C8's case: a resource whose attributes carry a comment line, a comment at
\* the end of the line and newlines inside a list has been rebuilt, and the
\* rebuilt body holds the comment at the end of the line of for_each.
C8_Witness ==
    /\ pc = "sorted"
    /\ runs = 1
    /\ input = <<ExampleResource>>
    /\ \E i \in DOMAIN file[1].body :
           file[1].body[i] = TokensNode(<<Ident("for_each"), Equal, Number, Comment>>)
    /\ \E i \in DOMAIN file[1].body :
           file[1].body[i] = TokensNode(<<Ident("depends_on"), Equal, OBrack, TokenNewline,
                                          Number, TokenNewline, CBrack>>)

\* What tells one top-level block from another across a pass: its type and
\* labels, and its body where no sorter rebuilds it.
Declaration(b) ==
    IF b.type \in {"terraform", "resource", "locals"} THEN BlockNode(b.type, b.labels, <<>>) ELSE b

Declarations(f) == [i \in DOMAIN Blocks(f) |-> Declaration(Blocks(f)[i])]

BlankSeparated(body) ==
    LET at == {i \in DOMAIN body : ~IsNewlineNode(body[i])}
    IN  \A p, q \in at :
            (p < q /\ (\A m \in at : ~(p < m /\ m < q)) /\ Group(body[p]) # Group(body[q]))
                => BlankLines(body, p, q) = 1

\* C10: the body sortResourceParams builds has exactly one blank line between
\* two consecutive non-empty groups (leading meta-arguments, other attributes,
\* nested blocks, depends_on).
C10_BlankSeparators ==
    pc = "sorted" =>
        \A ob \in BlocksOfType(file, "resource") : BlankSeparated(ob.body)

====
